---- MODULE Spec2Model ----
(***************************************************************************)
(* Model of the MongoDB instrumentation plugin                             *)
(* (plugins/node/opentelemetry-plugin-mongodb/src/mongodb.ts).             *)
(*                                                                         *)
(* JavaScript values are tagged records.  A string is its sequence of      *)
(* characters, an object is the sequence of its own enumerable properties  *)
(* in insertion order, and a JSON text is the sequence of its tokens.      *)
(***************************************************************************)
EXTENDS Integers, Sequences, FiniteSets, TLC

VARIABLES
    moduleExports,  \* which prototypes the loaded driver module has
    proto,          \* per target method: layers of wrapping on the prototype
    hasPatched,     \* MongoDBPlugin._hasPatched
    lifecycle,      \* history of patch()/unpatch() calls and their results
    config,         \* MongoDBPlugin._config
    call,           \* the invocation of a target method, as the caller sees it
    spans,          \* spans started by the tracer
    held,           \* the completion handlers the driver received, with their use
    completion,     \* the driver's latest invocation of a handler it holds
    probe           \* input and result of the attribute extractor under study

vars == <<moduleExports, proto, hasPatched, lifecycle, config, call, spans,
          held, completion, probe>>

-----------------------------------------------------------------------------
(* Bounds of the model *)

MaxLifecycle == 3
MaxFire      == 2
MaxKeys      == 2
MaxCalls     == 2

-----------------------------------------------------------------------------
(* JavaScript values *)

Undefined == [t |-> "undefined"]
Null      == [t |-> "null"]
Str(s)    == [t |-> "string", chars |-> s]
Num(n)    == [t |-> "number", n |-> n]
Fn(id)    == [t |-> "function", id |-> id]
Obj(ps)   == [t |-> "object", props |-> ps]
Arr(xs)   == [t |-> "array", items |-> xs]
Err(m)    == [t |-> "error", message |-> m]
Bool(b)   == [t |-> "boolean", b |-> b]
Prop(k, v) == [k |-> k, v |-> v]

\* typeof
TypeOf(v) ==
    CASE v.t = "undefined" -> "undefined"
      [] v.t = "string"    -> "string"
      [] v.t = "number"    -> "number"
      [] v.t = "boolean"   -> "boolean"
      [] v.t = "function"  -> "function"
      [] v.t = "patchedEnd" -> "function"
      [] OTHER             -> "object"

\* the i-th positional argument of an argument list (1-based), undefined
\* when the caller passed fewer
Arg(args, i) == IF i <= Len(args) THEN args[i] ELSE Undefined

\* property read o.k on a value that is neither null nor undefined
Get(o, k) ==
    IF o.t = "object" /\ \E i \in 1..Len(o.props) : o.props[i].k = k
    THEN o.props[CHOOSE i \in 1..Len(o.props) : o.props[i].k = k].v
    ELSE Undefined

\* a ?? b
Coalesce(a, b) == IF a = Undefined \/ a = Null THEN b ELSE a

Return(v) == [ok |-> TRUE, value |-> v]
Throw(e)  == [ok |-> FALSE, error |-> e]

-----------------------------------------------------------------------------
(* Library functions the plugin calls *)

\* Object.keys(v): the own enumerable property names in order; the indices
\* of a string or an array
ObjectKeys(v) ==
    CASE v.t = "object" -> [i \in 1..Len(v.props) |-> v.props[i].k]
      [] v.t = "string" -> [i \in 1..Len(v.chars) |-> ToString(i - 1)]
      [] v.t = "array"  -> [i \in 1..Len(v.items) |-> ToString(i - 1)]
      [] OTHER          -> <<>>

Tok(x)       == [tok |-> x]
KeyTok(k)    == [tok |-> "key", k |-> k]
StrTok(cs)   == [tok |-> "string", chars |-> cs]
NumTok(n)    == [tok |-> "number", n |-> n]

\* values JSON.stringify leaves out of an object
Omitted(v) == TypeOf(v) \in {"undefined", "function"}

RECURSIVE JSONTokens(_)
RECURSIVE JSONMembers(_, _)
RECURSIVE JSONItems(_, _)

\* members of an object from property i on; first tells whether a comma
\* is still to be written before the next member
JSONMembers(ps, first) ==
    IF ps = <<>> THEN <<>>
    ELSE IF Omitted(Head(ps).v) THEN JSONMembers(Tail(ps), first)
    ELSE (IF first THEN <<>> ELSE <<Tok(",")>>)
         \o <<KeyTok(Head(ps).k), Tok(":")>> \o JSONTokens(Head(ps).v)
         \o JSONMembers(Tail(ps), FALSE)

JSONItems(xs, first) ==
    IF xs = <<>> THEN <<>>
    ELSE (IF first THEN <<>> ELSE <<Tok(",")>>)
         \o (IF Omitted(Head(xs)) THEN <<Tok("null")>> ELSE JSONTokens(Head(xs)))
         \o JSONItems(Tail(xs), FALSE)

\* the text of JSON.stringify(v), for a v that is not Omitted
JSONTokens(v) ==
    CASE v.t = "object" -> <<Tok("{")>> \o JSONMembers(v.props, TRUE) \o <<Tok("}")>>
      [] v.t = "array"  -> <<Tok("[")>> \o JSONItems(v.items, TRUE) \o <<Tok("]")>>
      [] v.t = "string" -> <<StrTok(v.chars)>>
      [] v.t = "number" -> <<NumTok(v.n)>>
      [] v.t = "null"   -> <<Tok("null")>>
      [] OTHER          -> <<Tok("{"), Tok("}")>>

\* JSON.stringify(v): a string, or undefined for undefined and functions
JSONStringify(v) == IF Omitted(v) THEN Undefined ELSE [t |-> "json", text |-> JSONTokens(v)]

RECURSIVE SplitFrom(_, _, _)
\* pieces of cs cut at every sep, cur being the piece read so far
SplitFrom(cs, sep, cur) ==
    IF cs = <<>> THEN <<cur>>
    ELSE IF Head(cs) = sep THEN <<cur>> \o SplitFrom(Tail(cs), sep, <<>>)
    ELSE SplitFrom(Tail(cs), sep, Append(cur, Head(cs)))

\* String.prototype.split(sep) for a one-character separator
Split(cs, sep) == SplitFrom(cs, sep, <<>>)

\* `${v}`
Template(v) ==
    CASE v.t = "string" -> v
      [] v.t = "number" -> Str(<<ToString(v.n)>>)
      [] OTHER          -> Str(<<v.t>>)

Truthy(v) == v.t \notin {"undefined", "null"}

\* o?.k
OptGet(o, k) == IF Truthy(o) THEN Get(o, k) ELSE Undefined

-----------------------------------------------------------------------------
(* The plugin: classification and attribute extraction *)

SERVER_METHODS == <<"insert", "update", "remove", "command">>
CURSOR_METHODS == <<"_next", "next">>

\* a _getCommandType that tests count before createIndexes
_getCommandTypeCountFirst(command) ==
    IF ~Truthy(command) THEN Throw("TypeError")
    ELSE IF Get(command, "count") # Undefined THEN Return("COUNT")
    ELSE IF Get(command, "createIndexes") # Undefined THEN Return("CREATE_INDEXES")
    ELSE IF Get(command, "findandmodify") # Undefined THEN Return("FIND_AND_MODIFY")
    ELSE IF Get(command, "ismaster") # Undefined THEN Return("IS_MASTER")
    ELSE Return("UNKNOWN")

\* _getCommandType: the kind of a command, or a TypeError when the command
\* is null or undefined (a property read on them throws)
_getCommandType(command) ==
    IF ~Truthy(command) THEN Throw("TypeError")
    ELSE IF Get(command, "createIndexes") # Undefined THEN Return("CREATE_INDEXES")
    ELSE IF Get(command, "findandmodify") # Undefined THEN Return("FIND_AND_MODIFY")
    ELSE IF Get(command, "ismaster") # Undefined THEN Return("IS_MASTER")
    ELSE IF Get(command, "count") # Undefined THEN Return("COUNT")
    ELSE Return("UNKNOWN")

\* a span as the tracer starts it
StartSpan(name) ==
    [name |-> name, kind |-> "CLIENT", attributes |-> <<>>,
     status |-> [code |-> "UNSET"], ends |-> 0]

\* span.setAttributes / span.setAttribute: later values replace earlier ones
SetAttributes(span, m) == [span EXCEPT !.attributes = m @@ @]

\* the network attributes, set when the topology exposes its settings
NetworkAttributes(span, topology) ==
    IF Truthy(topology) /\ Truthy(Get(topology, "s"))
    THEN LET s == Get(topology, "s") IN
         SetAttributes(span,
            [k \in {"NET_HOST_NAME", "NET_HOST_PORT"} |->
                IF k = "NET_HOST_NAME"
                THEN Template(Coalesce(OptGet(Get(s, "options"), "host"), Get(s, "host")))
                ELSE Template(Coalesce(OptGet(Get(s, "options"), "port"), Get(s, "port")))])
    ELSE span

\* the database attributes: const [dbName, dbCollection] = ns.toString().split('.')
DatabaseAttributes(span, ns) ==
    LET parts == Split(ns.chars, ".") IN
    SetAttributes(span,
        [k \in {"DB_SYSTEM", "DB_NAME", "DB_MONGODB_COLLECTION"} |->
            CASE k = "DB_SYSTEM" -> Str(<<"m","o","n","g","o","d","b">>)
              [] k = "DB_NAME"   -> Str(parts[1])
              [] OTHER           -> IF Len(parts) >= 2 THEN Str(parts[2]) ELSE Undefined])

\* the query body the statement is taken from
CommandObj(command) ==
    Coalesce(Get(command, "query"), Coalesce(Get(command, "q"), command))

\* a redaction that masks strings only and copies every other value
RedactedStringsOnly(commandObj) ==
    LET keys == ObjectKeys(commandObj) IN
    Obj([i \in 1..Len(keys) |->
            Prop(keys[i], IF Get(commandObj, keys[i]).t = "string"
                          THEN Str(<<"?">>) ELSE Get(commandObj, keys[i]))])

\* the body with every value replaced by the placeholder
Redacted(commandObj) ==
    LET keys == ObjectKeys(commandObj) IN
    Obj([i \in 1..Len(keys) |-> Prop(keys[i], Str(<<"?">>))])

\* a Query that reports verbatim unless the option is false
QueryUnlessFalse(cfg, command) ==
    IF OptGet(cfg, "enhancedDatabaseReporting") # Bool(FALSE)
    THEN CommandObj(command)
    ELSE Redacted(CommandObj(command))

\* the value given to JSON.stringify for the statement attribute
Query(cfg, command) ==
    IF OptGet(cfg, "enhancedDatabaseReporting") = Bool(TRUE)
    THEN CommandObj(command)
    ELSE Redacted(CommandObj(command))

\* _populateAttributes: the span after the call and whether the call threw
\* (the span keeps what was set before the throw)
_populateAttributes(span, ns, command, topology, cfg) ==
    LET s1 == NetworkAttributes(span, topology) IN
    IF ~Truthy(ns) THEN [span |-> s1, threw |-> TRUE]
    ELSE LET s2 == DatabaseAttributes(s1, ns) IN
         IF command = Undefined THEN [span |-> s2, threw |-> FALSE]
         ELSE IF command = Null THEN [span |-> s2, threw |-> TRUE]
         ELSE [span |-> SetAttributes(s2,
                   [k \in {"db.statement"} |-> JSONStringify(Query(cfg, command))]),
               threw |-> FALSE]

-----------------------------------------------------------------------------
(* The plugin: the wrappers *)

NoSpan     == [none |-> TRUE]
NotInvoked == [invoked |-> FALSE]
Invoked(this, args) == [invoked |-> TRUE, this |-> this, args |-> args]

\* a patchedEnd that closes over one span kept by the plugin, the first
\* one started, instead of the span of its own call
PatchedEndSharedSpan(id, resultHandler) ==
    [t |-> "patchedEnd", span |-> 1, resultHandler |-> resultHandler]

\* the function patchedEnd made by _patchEnd(span, resultHandler); span is
\* the position of the span among the spans started
PatchedEnd(id, resultHandler) ==
    [t |-> "patchedEnd", span |-> id, resultHandler |-> resultHandler]

\* typeof options === 'function' ? options : callback
ResultHandler(options, callback) ==
    IF TypeOf(options) = "function" THEN options ELSE callback

\* the guard of patchedServerCommand: TRUE when the call is passed through
ServerPassthrough(active, resultHandler, commands) ==
    \/ ~active
    \/ TypeOf(resultHandler) # "function"
    \/ TypeOf(commands) # "object"

\* a FirstCommand that does not unwrap an array of commands
FirstCommandNoUnwrap(commands) == commands

\* commands instanceof Array ? commands[0] : commands
FirstCommand(commands) ==
    IF commands.t = "array" THEN Arg(commands.items, 1) ELSE commands

\* the label of the span name
OperationType(operationName, commandType) ==
    IF commandType = "UNKNOWN" THEN operationName ELSE commandType

\* the arguments original.call receives on the span path of a dispatch call
ServerOriginalArgs(ns, commands, options, callback, wrapped) ==
    <<ns, commands, wrapped>>

\* a passthrough written with the declared parameters instead of arguments:
\* original.call(this, ns, commands, options)
PassthroughArgsDeclared(args) == SubSeq(args, 1, IF Len(args) < 3 THEN Len(args) ELSE 3)

\* the arguments original.apply receives when the call is passed through
PassthroughArgs(args) == args

\* patchedServerCommand: the span it started (if any), the call of original
\* it made (if any) and what its caller observes.  original stands for what
\* the wrapped implementation does when called: a value or an error.
patchedServerCommand(operationName, this, args, active, cfg, original, id) ==
    LET ns            == Arg(args, 1)
        commands      == Arg(args, 2)
        options       == Arg(args, 3)
        callback      == Arg(args, 4)
        resultHandler == ResultHandler(options, callback)
    IN
    IF ServerPassthrough(active, resultHandler, commands)
    THEN [span |-> NoSpan, reached |-> Invoked(this, PassthroughArgs(args)),
          outcome |-> original]
    ELSE
    LET command     == FirstCommand(commands)
        commandType == _getCommandType(command)
    IN
    IF ~commandType.ok
    THEN [span |-> NoSpan, reached |-> NotInvoked, outcome |-> Throw(commandType.error)]
    ELSE
    LET span == StartSpan(<<"mongodb", OperationType(operationName, commandType.value)>>)
        p    == _populateAttributes(span, ns, command, this, cfg)
    IN
    IF p.threw
    THEN [span |-> p.span, reached |-> NotInvoked, outcome |-> Throw("TypeError")]
    ELSE [span |-> p.span,
          reached |-> Invoked(this, ServerOriginalArgs(ns, commands, options, callback,
                                                       PatchedEnd(id, resultHandler))),
          outcome |-> original]

\* the guard of patchedCursorCommand
CursorPassthrough(active, resultHandler) ==
    \/ ~active
    \/ TypeOf(resultHandler) # "function"

\* the arguments original.call receives on the span path of a cursor call
CursorOriginalArgs(args, wrapped) == <<wrapped>>

\* a patchedCursorCommand that ends the span itself once original returned
patchedCursorCommandEndsOnReturn(this, args, active, cfg, original, id) ==
    LET resultHandler == Arg(args, 1) IN
    IF CursorPassthrough(active, resultHandler)
    THEN [span |-> NoSpan, reached |-> Invoked(this, PassthroughArgs(args)),
          outcome |-> original]
    ELSE
    LET span == StartSpan(<<"mongodb", "query">>)
        p    == _populateAttributes(span, Get(this, "ns"), Get(this, "cmd"),
                                    Get(this, "topology"), cfg)
    IN
    IF p.threw
    THEN [span |-> p.span, reached |-> NotInvoked, outcome |-> Throw("TypeError")]
    ELSE [span |-> [p.span EXCEPT !.ends = @ + 1],
          reached |-> Invoked(this, CursorOriginalArgs(args, PatchedEnd(id, resultHandler))),
          outcome |-> original]

\* patchedCursorCommand, as patchedServerCommand
patchedCursorCommand(this, args, active, cfg, original, id) ==
    LET resultHandler == Arg(args, 1) IN
    IF CursorPassthrough(active, resultHandler)
    THEN [span |-> NoSpan, reached |-> Invoked(this, PassthroughArgs(args)),
          outcome |-> original]
    ELSE
    LET span == StartSpan(<<"mongodb", "query">>)
        p    == _populateAttributes(span, Get(this, "ns"), Get(this, "cmd"),
                                    Get(this, "topology"), cfg)
    IN
    IF p.threw
    THEN [span |-> p.span, reached |-> NotInvoked, outcome |-> Throw("TypeError")]
    ELSE [span |-> p.span,
          reached |-> Invoked(this, CursorOriginalArgs(args, PatchedEnd(id, resultHandler))),
          outcome |-> original]

\* a call of a target method that carries no wrapper
Unwrapped(this, args, original) ==
    [span |-> NoSpan, reached |-> Invoked(this, args), outcome |-> original]

\* a patchedEnd that tests its first argument for truthiness: if (error)
PatchedEndEventsTruthy(id, resultHandler, this, args) ==
    (IF Truthy(Arg(args, 1))
     THEN <<[e |-> "setStatus", span |-> id,
             status |-> [code |-> "ERROR",
                         message |-> IF Arg(args, 1).t = "error"
                                     THEN Arg(args, 1).message ELSE "undefined"]]>>
     ELSE <<>>)
    \o <<[e |-> "end", span |-> id]>>
    \o <<[e |-> "handler", fn |-> resultHandler, this |-> this, args |-> args]>>

\* a patchedEnd that delegates to the real handler before it ends the span
PatchedEndEventsHandlerFirst(id, resultHandler, this, args) ==
    (IF Arg(args, 1).t = "error"
     THEN <<[e |-> "setStatus", span |-> id,
             status |-> [code |-> "ERROR", message |-> Arg(args, 1).message]]>>
     ELSE <<>>)
    \o <<[e |-> "handler", fn |-> resultHandler, this |-> this, args |-> args]>>
    \o <<[e |-> "end", span |-> id]>>

\* what patchedEnd does, in order, when called with this and args
PatchedEndEvents(id, resultHandler, this, args) ==
    (IF Arg(args, 1).t = "error"
     THEN <<[e |-> "setStatus", span |-> id,
             status |-> [code |-> "ERROR", message |-> Arg(args, 1).message]]>>
     ELSE <<>>)
    \o <<[e |-> "end", span |-> id]>>
    \o <<[e |-> "handler", fn |-> resultHandler, this |-> this, args |-> args]>>

\* the span after the events of one run of patchedEnd
RECURSIVE ApplyEvents(_, _)
ApplyEvents(span, events) ==
    IF events = <<>> THEN span
    ELSE LET ev == Head(events) IN
         ApplyEvents(
            CASE ev.e = "setStatus" -> [span EXCEPT !.status = ev.status]
              [] ev.e = "end"       -> [span EXCEPT !.ends = @ + 1]
              [] OTHER              -> span,
            Tail(events))

-----------------------------------------------------------------------------
(* The plugin: patch and unpatch *)

Range(f) == {f[i] : i \in DOMAIN f}

Methods == Range(SERVER_METHODS) \cup Range(CURSOR_METHODS)

\* shimmer.wrap / shimmer.massWrap on the named methods of a prototype
Wrap(p, names) == [m \in DOMAIN p |-> IF m \in names THEN p[m] + 1 ELSE p[m]]

\* shimmer.massUnwrap: a method that carries a wrapper gets back the
\* implementation the wrapper was made from; any other is left alone
Unwrap(p, names) ==
    [m \in DOMAIN p |-> IF m \in names /\ p[m] > 0 THEN p[m] - 1 ELSE p[m]]

\* a patch() that reads .prototype of the targets without testing for them
patchNoPresenceTest(me, p, hp) ==
    IF hp = TRUE
    THEN [proto |-> p, hasPatched |-> hp, outcome |-> Return("moduleExports")]
    ELSE IF ~me.Server
    THEN [proto |-> p, hasPatched |-> hp, outcome |-> Throw("TypeError")]
    ELSE IF ~me.Cursor
    THEN [proto |-> Wrap(p, Range(SERVER_METHODS)), hasPatched |-> hp,
          outcome |-> Throw("TypeError")]
    ELSE [proto |-> Wrap(Wrap(p, Range(SERVER_METHODS)), Range(CURSOR_METHODS)),
          hasPatched |-> TRUE, outcome |-> Return("moduleExports")]

\* a patch() without the _hasPatched guard
patchUnguarded(me, p, hp) ==
    LET p1 == IF me.Server THEN Wrap(p, Range(SERVER_METHODS)) ELSE p
        p2 == IF me.Cursor THEN Wrap(p1, Range(CURSOR_METHODS)) ELSE p1
    IN [proto |-> p2, hasPatched |-> TRUE, outcome |-> Return("moduleExports")]

\* patch(): the prototypes and the flag after the call, and its outcome
patch(me, p, hp) ==
    IF hp = TRUE
    THEN [proto |-> p, hasPatched |-> hp, outcome |-> Return("moduleExports")]
    ELSE LET p1 == IF me.Server THEN Wrap(p, Range(SERVER_METHODS)) ELSE p
             p2 == IF me.Cursor THEN Wrap(p1, Range(CURSOR_METHODS)) ELSE p1
         IN [proto |-> p2, hasPatched |-> TRUE, outcome |-> Return("moduleExports")]

\* an unpatch() that restores the Server methods only
unpatchServerOnly(me, p, hp) ==
    IF ~me.Server
    THEN [proto |-> p, hasPatched |-> hp, outcome |-> Throw("TypeError")]
    ELSE LET p1 == Unwrap(p, Range(SERVER_METHODS)) IN
         IF ~me.Cursor
         THEN [proto |-> p1, hasPatched |-> hp, outcome |-> Throw("TypeError")]
         ELSE [proto |-> p1, hasPatched |-> hp, outcome |-> Return(Undefined)]

\* an unpatch() that skips an absent target, as patch() does
unpatchSkipsAbsent(me, p, hp) ==
    LET p1 == IF me.Server THEN Unwrap(p, Range(SERVER_METHODS)) ELSE p
        p2 == IF me.Cursor THEN Unwrap(p1, Range(CURSOR_METHODS)) ELSE p1
    IN [proto |-> p2, hasPatched |-> hp, outcome |-> Return(Undefined)]

\* an unpatch() that clears _hasPatched once it has unwrapped
unpatchResetsFlag(me, p, hp) ==
    IF ~me.Server
    THEN [proto |-> p, hasPatched |-> hp, outcome |-> Throw("TypeError")]
    ELSE LET p1 == Unwrap(p, Range(SERVER_METHODS)) IN
         IF ~me.Cursor
         THEN [proto |-> p1, hasPatched |-> hp, outcome |-> Throw("TypeError")]
         ELSE [proto |-> Unwrap(p1, Range(CURSOR_METHODS)), hasPatched |-> FALSE,
               outcome |-> Return(Undefined)]

\* unpatch(): reading .prototype of an absent Server or Cursor throws
unpatch(me, p, hp) ==
    IF ~me.Server
    THEN [proto |-> p, hasPatched |-> hp, outcome |-> Throw("TypeError")]
    ELSE LET p1 == Unwrap(p, Range(SERVER_METHODS)) IN
         IF ~me.Cursor
         THEN [proto |-> p1, hasPatched |-> hp, outcome |-> Throw("TypeError")]
         ELSE [proto |-> Unwrap(p1, Range(CURSOR_METHODS)), hasPatched |-> hp,
               outcome |-> Return(Undefined)]

-----------------------------------------------------------------------------
(* Inputs *)

NsDbColl == Str(<<"d", "b", ".", "c">>)
Handler  == Fn(1)
Options  == Obj(<<Prop("w", Num(1))>>)

CmdFind          == Obj(<<Prop("find", Str(<<"c">>)), Prop("filter", Obj(<<Prop("a", Num(1))>>))>>)
CmdCreateIndexes == Obj(<<Prop("createIndexes", Str(<<"c">>)), Prop("count", Str(<<"c">>))>>)
CmdCount         == Obj(<<Prop("count", Str(<<"c">>)), Prop("query", Obj(<<Prop("a", Num(1))>>))>>)

\* what a caller may pass as second argument of a dispatch method
DispatchCommands ==
    {Undefined, Null, Str(<<"x">>), Arr(<<>>), Arr(<<CmdCount, CmdFind>>),
     CmdFind, CmdCreateIndexes}

\* the arguments after the commands
DispatchTails == {<<>>, <<Handler>>, <<Options>>, <<Options, Handler>>}

DispatchArgs ==
    {<<>>} \cup
    {<<ns, c>> \o tail : ns \in {NsDbColl, Undefined}, c \in DispatchCommands,
                         tail \in DispatchTails}

TopologyOptions == Obj(<<Prop("s", Obj(<<Prop("options",
                        Obj(<<Prop("host", Str(<<"h">>)), Prop("port", Num(27017))>>))>>))>>)
TopologyLegacy  == Obj(<<Prop("s", Obj(<<Prop("host", Str(<<"h">>)),
                                         Prop("port", Num(27017))>>))>>)
TopologyBare    == Obj(<<>>)

ServerReceivers == {TopologyOptions}

CursorReceivers ==
    {Obj(<<Prop("ns", ns), Prop("cmd", cmd), Prop("topology", TopologyLegacy)>>) :
        ns \in {NsDbColl, Undefined}, cmd \in {Undefined, Null, CmdFind}}

CursorArgs == {<<>>, <<Handler>>, <<Options>>}

\* what the wrapped implementation does when it is called
Originals == {Return(Str(<<"r">>)), Throw("MongoError")}

\* what the driver passes to a completion handler, and as its receiver
CallbackArgs == {<<>>, <<Err("boom")>>, <<Null, Str(<<"r">>)>>, <<Str(<<"e">>)>>}
CallbackThis == Obj(<<Prop("driver", Bool(TRUE))>>)

ConfigEnhanced == Obj(<<Prop("enhancedDatabaseReporting", Bool(TRUE))>>)
ConfigPlain    == Obj(<<Prop("enhancedDatabaseReporting", Bool(FALSE))>>)
Configs        == {Undefined, Obj(<<>>), ConfigPlain, ConfigEnhanced}

-----------------------------------------------------------------------------
(* The state machine *)

NoCall       == [made |-> FALSE]
NoCompletion == [made |-> FALSE]
NoProbe      == [made |-> FALSE]

Init ==
    /\ moduleExports \in [Server : BOOLEAN, Cursor : BOOLEAN]
    /\ proto = [m \in Methods |-> 0]
    /\ hasPatched = FALSE
    /\ lifecycle = <<>>
    /\ config \in {Undefined, ConfigEnhanced}
    /\ call = NoCall
    /\ spans = <<>>
    /\ held = <<>>
    /\ completion = NoCompletion
    /\ probe = NoProbe

\* the plugin host calls patch()
Patch ==
    /\ Len(lifecycle) < MaxLifecycle
    /\ LET r == patch(moduleExports, proto, hasPatched) IN
        /\ proto' = r.proto
        /\ hasPatched' = r.hasPatched
        /\ lifecycle' = Append(lifecycle, [op |-> "patch", outcome |-> r.outcome])
    /\ UNCHANGED <<moduleExports, config, call, spans, held, completion, probe>>

\* the plugin host calls unpatch()
Unpatch ==
    /\ Len(lifecycle) < MaxLifecycle
    /\ LET r == unpatch(moduleExports, proto, hasPatched) IN
        /\ proto' = r.proto
        /\ hasPatched' = r.hasPatched
        /\ lifecycle' = Append(lifecycle, [op |-> "unpatch", outcome |-> r.outcome])
    /\ UNCHANGED <<moduleExports, config, call, spans, held, completion, probe>>

\* the function the driver keeps as completion handler of a call it received
DriverHandler(kind, args) ==
    IF kind = "server" THEN ResultHandler(Arg(args, 3), Arg(args, 4)) ELSE Arg(args, 1)

\* the state after a call of a target method whose wrapper (or bare
\* implementation) did r; the driver keeps the completion handler of a call
\* it accepted, that is, one original returned from
Called(kind, method, this, args, active, original, r) ==
    /\ call' = [made |-> TRUE, kind |-> kind, method |-> method, this |-> this,
                args |-> args, active |-> active, original |-> original,
                wrapped |-> proto[method] > 0, installed |-> hasPatched,
                span |-> IF r.span = NoSpan THEN 0 ELSE Len(spans) + 1,
                reached |-> r.reached, outcome |-> r.outcome]
    /\ spans' = IF r.span = NoSpan THEN spans ELSE Append(spans, r.span)
    /\ held' = IF r.reached.invoked /\ r.outcome.ok
                  /\ TypeOf(DriverHandler(kind, r.reached.args)) = "function"
               THEN Append(held, [fn |-> DriverHandler(kind, r.reached.args), fires |-> 0])
               ELSE held
    /\ UNCHANGED <<moduleExports, proto, hasPatched, lifecycle, config, completion, probe>>

\* the application calls Server.prototype.insert/update/remove/command
ServerCall ==
    /\ call = NoCall
    /\ moduleExports.Server
    /\ \E method \in Range(SERVER_METHODS), this \in ServerReceivers,
          args \in DispatchArgs, active \in BOOLEAN, original \in Originals :
        Called("server", method, this, args, active, original,
               IF proto[method] > 0
               THEN patchedServerCommand(method, this, args, active, config, original,
                                         Len(spans) + 1)
               ELSE Unwrapped(this, args, original))

\* the application calls Cursor.prototype._next/next
CursorCall ==
    /\ call = NoCall
    /\ moduleExports.Cursor
    /\ \E method \in Range(CURSOR_METHODS), this \in CursorReceivers,
          args \in CursorArgs, active \in BOOLEAN, original \in Originals :
        Called("cursor", method, this, args, active, original,
               IF proto[method] > 0
               THEN patchedCursorCommand(this, args, active, config, original,
                                         Len(spans) + 1)
               ELSE Unwrapped(this, args, original))

\* the driver invokes a completion handler it holds
DriverInvoke ==
    \E i \in 1..Len(held), args \in CallbackArgs :
        /\ held[i].fires < MaxFire
        /\ LET fn     == held[i].fn
               events == IF fn.t = "patchedEnd"
                         THEN PatchedEndEvents(fn.span, fn.resultHandler, CallbackThis, args)
                         ELSE <<[e |-> "handler", fn |-> fn, this |-> CallbackThis,
                                 args |-> args]>>
           IN
            /\ completion' = [made |-> TRUE, fn |-> fn, this |-> CallbackThis,
                              args |-> args, events |-> events]
            /\ spans' = IF fn.t = "patchedEnd"
                        THEN [spans EXCEPT ![fn.span] = ApplyEvents(@, events)]
                        ELSE spans
        /\ held' = [held EXCEPT ![i].fires = @ + 1]
        /\ UNCHANGED <<moduleExports, proto, hasPatched, lifecycle, config, call, probe>>

Next == Patch \/ Unpatch \/ ServerCall \/ CursorCall \/ DriverInvoke

Spec == Init /\ [][Next]_vars

-----------------------------------------------------------------------------
(* Classification and attribute extraction on their own *)

CommandKeys   == {"createIndexes", "findandmodify", "ismaster", "count", "query", "q", "find",
                  "filter"}
CommandValues == {Str(<<"x">>), Null, Obj(<<Prop("a", Num(1))>>)}

\* the sequences of at most n distinct keys
RECURSIVE KeySeqs(_)
KeySeqs(n) ==
    IF n = 0 THEN {<<>>}
    ELSE KeySeqs(n - 1) \cup
         {Append(ks, k) : ks \in {q \in KeySeqs(n - 1) : Len(q) = n - 1},
                          k \in CommandKeys}

\* the command objects with at most MaxKeys properties
CommandObjects ==
    UNION {{Obj([i \in 1..Len(ks) |-> Prop(ks[i], vs[i])]) :
                vs \in [1..Len(ks) -> CommandValues]} :
           ks \in {q \in KeySeqs(MaxKeys) : \A i, j \in 1..Len(q) : q[i] = q[j] => i = j}}

ProbeCommands   == CommandObjects \cup {Undefined, Null, Str(<<"x">>)}
ProbeNamespaces == {NsDbColl, Str(<<"d", "b">>), Str(<<"d", ".", "c", ".", "x">>), Undefined}
ProbeTopologies == {TopologyOptions, TopologyLegacy, TopologyBare}

NotRun == [run |-> FALSE]

InitAttr ==
    /\ moduleExports = [Server |-> TRUE, Cursor |-> TRUE]
    /\ proto = [m \in Methods |-> 0]
    /\ hasPatched = FALSE
    /\ lifecycle = <<>>
    /\ config \in Configs
    /\ call = NoCall
    /\ spans = <<>>
    /\ held = <<>>
    /\ completion = NoCompletion
    /\ probe \in [made : {TRUE}, ns : ProbeNamespaces, command : ProbeCommands,
                  topology : ProbeTopologies, commandType : {NotRun},
                  populated : {NotRun}]

\* _getCommandType is applied to the command
Classify ==
    /\ probe.commandType = NotRun
    /\ probe' = [probe EXCEPT !.commandType = _getCommandType(probe.command)]
    /\ UNCHANGED <<moduleExports, proto, hasPatched, lifecycle, config, call, spans,
                   held, completion>>

\* _populateAttributes is applied to a fresh span
Populate ==
    /\ probe.populated = NotRun
    /\ probe' = [probe EXCEPT !.populated =
                    _populateAttributes(StartSpan(<<"mongodb", "probe">>), probe.ns,
                                        probe.command, probe.topology, config)]
    /\ UNCHANGED <<moduleExports, proto, hasPatched, lifecycle, config, call, spans,
                   held, completion>>

NextAttr == Classify \/ Populate

SpecAttr == InitAttr /\ [][NextAttr]_vars

-----------------------------------------------------------------------------
(* Properties of the wrappers *)

\* the completion handler the caller of the recorded call supplied
CallHandler == DriverHandler(call.kind, call.args)

\* the position of that handler among the caller's arguments
CallHandlerAt ==
    IF call.kind = "cursor" THEN 1
    ELSE IF TypeOf(Arg(call.args, 3)) = "function" THEN 3 ELSE 4

\* the precondition of the span path as the specification states it
CallPrecondition ==
    /\ call.active
    /\ TypeOf(CallHandler) = "function"
    /\ call.kind = "server" => TypeOf(Arg(call.args, 2)) = "object"

WrappedCall == call.made /\ call.wrapped

\* C1: a call of a wrapped method starts a span if and only if a span is
\* active, the resolved completion handler is a function and (dispatch) the
\* command argument is an object; otherwise original gets the caller's
\* receiver and arguments unchanged.
C1_SpanIffPrecondition ==
    WrappedCall =>
        /\ (call.span # 0) <=> CallPrecondition
        /\ ~CallPrecondition => call.reached = Invoked(call.this, call.args)

\* C2: with no active span a wrapped dispatch method hands the caller's
\* receiver and arguments to original, returns or throws what original
\* returns or throws, and starts no span.
C2_NoContextPassthrough ==
    (WrappedCall /\ call.kind = "server" /\ ~call.active) =>
        /\ call.reached = Invoked(call.this, call.args)
        /\ call.outcome = call.original
        /\ call.span = 0
        /\ spans = <<>>

C2_Witness ==
    /\ WrappedCall /\ call.kind = "server" /\ ~call.active
    /\ call.args = <<NsDbColl, CmdFind, Options, Handler>>
    /\ call.outcome = Throw("MongoError")

\* C3: every span a wrapper started is ended exactly once: end() is never
\* called a second time on it, and it has been called once the real
\* handler of the call has run.
C3_EndedExactlyOnce ==
    /\ \A i \in 1..Len(spans) : spans[i].ends < 2
    /\ (completion.made /\ completion.fn.t = "patchedEnd")
            => spans[completion.fn.span].ends >= 1

\* C4: on the span path original receives the caller's arguments with only
\* the completion handler replaced by patchedEnd, each in its position.
C4_OnlyHandlerReplaced ==
    (WrappedCall /\ call.span # 0 /\ call.reached.invoked) =>
        /\ call.reached.this = call.this
        /\ Len(call.reached.args) = Len(call.args)
        /\ \A i \in 1..Len(call.args) :
              call.reached.args[i] =
                  IF i = CallHandlerAt THEN PatchedEnd(call.span, CallHandler)
                  ELSE call.args[i]

\* C5: called with an Error as first argument, patchedEnd sets the span's
\* status to ERROR with the error's message, then ends the span, then calls
\* the real handler once with the same receiver and arguments; nothing
\* follows the call of the real handler.
C5_ErrorThenEndThenHandler ==
    (completion.made /\ completion.fn.t = "patchedEnd"
        /\ Arg(completion.args, 1).t = "error") =>
        /\ completion.events =
              << [e |-> "setStatus", span |-> completion.fn.span,
                  status |-> [code |-> "ERROR",
                              message |-> Arg(completion.args, 1).message]],
                 [e |-> "end", span |-> completion.fn.span],
                 [e |-> "handler", fn |-> completion.fn.resultHandler,
                  this |-> completion.this, args |-> completion.args] >>
        /\ spans[completion.fn.span].status =
              [code |-> "ERROR", message |-> Arg(completion.args, 1).message]

C5_Witness ==
    /\ completion.made /\ completion.fn.t = "patchedEnd"
    /\ completion.args = <<Err("boom")>>
    /\ spans[completion.fn.span].ends = 1
    /\ spans[completion.fn.span].status.code = "ERROR"

\* C6: a wrapped method never throws on its own account and always calls
\* original: its caller observes what original returns or throws.
C6_WrapperTransparent ==
    WrappedCall => /\ call.reached.invoked
                   /\ call.outcome = call.original

-----------------------------------------------------------------------------
(* Properties of patch and unpatch *)

Ops == [i \in 1..Len(lifecycle) |-> lifecycle[i].op]

\* the prototype that carries a target method is present on the module
Present(m) ==
    IF m \in Range(SERVER_METHODS) THEN moduleExports.Server ELSE moduleExports.Cursor

\* C7: after n >= 1 consecutive calls of patch() every target method of a
\* present prototype carries exactly one layer of wrapping, and every one
\* of the calls returned the module without an error.
C7_PatchIdempotent ==
    (Len(lifecycle) >= 1 /\ \A i \in 1..Len(lifecycle) : lifecycle[i].op = "patch") =>
        /\ \A m \in Methods : proto[m] = IF Present(m) THEN 1 ELSE 0
        /\ hasPatched = TRUE
        /\ \A i \in 1..Len(lifecycle) : lifecycle[i].outcome = Return("moduleExports")

C7_Witness ==
    /\ Len(lifecycle) >= 2
    /\ \A i \in 1..Len(lifecycle) : lifecycle[i].op = "patch"
    /\ \A m \in Methods : proto[m] = 1

\* C8: unpatch() never clears the installed flag: the flag is set as soon
\* as patch() has been called; after patch(), unpatch(), patch() the flag is
\* set and every target method is the bare original; a call made with the
\* flag set and the method bare starts no span.
C8_FlagSurvivesUnpatch ==
    /\ hasPatched = (\E i \in 1..Len(lifecycle) : lifecycle[i].op = "patch")
    /\ (Len(lifecycle) >= 3 /\ SubSeq(Ops, 1, 3) = <<"patch", "unpatch", "patch">>
            /\ lifecycle[2].outcome.ok) =>
                /\ hasPatched = TRUE
                /\ \A m \in Methods : proto[m] = 0
    /\ (call.made /\ call.installed /\ ~call.wrapped) =>
                /\ call.span = 0
                /\ spans = <<>>

C8_Witness ==
    /\ Ops = <<"patch", "unpatch", "patch">>
    /\ lifecycle[2].outcome.ok
    /\ call.made /\ call.installed /\ ~call.wrapped
    /\ CallPrecondition
    /\ call.span = 0

-----------------------------------------------------------------------------
(* Properties of classification and attribute extraction *)

\* the command has an own property named k
HasKey(command, k) ==
    command.t = "object" /\ \E i \in 1..Len(command.props) : command.props[i].k = k

ClassifierKeys  == <<"createIndexes", "findandmodify", "ismaster", "count">>
ClassifierKinds == <<"CREATE_INDEXES", "FIND_AND_MODIFY", "IS_MASTER", "COUNT">>

\* the kind of the first classifier key the command has, UNKNOWN with none
FirstMatch(command) ==
    LET found == {i \in 1..Len(ClassifierKeys) : HasKey(command, ClassifierKeys[i])} IN
    IF found = {} THEN "UNKNOWN"
    ELSE ClassifierKinds[CHOOSE i \in found : \A j \in found : i <= j]

IsFlatObject(text) ==
    /\ Len(text) >= 2
    /\ text[1] = Tok("{")
    /\ text[Len(text)] = Tok("}")
    /\ Len(text) > 2 =>
        /\ (Len(text) - 1) % 4 = 0
        /\ \A j \in 0..((Len(text) - 1) \div 4 - 1) :
            /\ text[2 + 4 * j].tok = "key"
            /\ text[3 + 4 * j] = Tok(":")
            /\ text[4 + 4 * j].tok \in {"string", "number", "null"}
            /\ text[5 + 4 * j] = IF 5 + 4 * j = Len(text) THEN Tok("}") ELSE Tok(",")

\* the members of a flat object text, in order: <<key, value token>>
FlatMembers(text) ==
    [j \in 1..((Len(text) - 1) \div 4) |-> <<text[4 * j - 2].k, text[4 * j]>>]

EnhancedReporting == OptGet(config, "enhancedDatabaseReporting") = Bool(TRUE)

\* the probe ran _populateAttributes up to the statement attribute
StatementSet ==
    /\ probe.made /\ probe.populated # NotRun
    /\ ~probe.populated.threw
    /\ "db.statement" \in DOMAIN probe.populated.span.attributes

Statement == probe.populated.span.attributes["db.statement"]

\* another value than v
OtherValue(v) ==
    CASE v.t = "object" -> Arr(<<v, Num(7)>>)
      [] v.t = "string" -> Num(Len(v.chars))
      [] OTHER          -> Str(<<"y">>)

\* a query body with the keys of body, in the same order, and other values
OtherBody(body) ==
    CASE body.t = "object" ->
            Obj([i \in 1..Len(body.props) |->
                    Prop(body.props[i].k, OtherValue(body.props[i].v))])
      [] body.t = "string" -> Str([i \in 1..Len(body.chars) |-> "z"])
      [] OTHER -> body

\* a command whose selected query body is OtherBody of that of c
SameKeysOtherValues(c) == Obj(<<Prop("query", OtherBody(CommandObj(c)))>>)

\* C10: with enhanced reporting off the statement attribute is the JSON text
\* of an object with exactly the keys of the selected query body, each with
\* the value "?"; a body with the same keys and other values gives the same
\* statement.
C10_RedactedStatement ==
    (StatementSet /\ ~EnhancedReporting) =>
        LET body == CommandObj(probe.command)
            keys == ObjectKeys(body)
        IN
        /\ Statement.t = "json"
        /\ IsFlatObject(Statement.text)
        /\ FlatMembers(Statement.text) = [i \in 1..Len(keys) |-> <<keys[i], StrTok(<<"?">>)>>]
        /\ _populateAttributes(StartSpan(<<"mongodb", "probe">>), probe.ns,
                               SameKeysOtherValues(probe.command), probe.topology,
                               config).span.attributes["db.statement"] = Statement

C10_Witness ==
    /\ StatementSet /\ ~EnhancedReporting
    /\ probe.command.t = "object"
    /\ Len(probe.command.props) = 2
    /\ probe.command.props[1] = Prop("find", Str(<<"x">>))
    /\ probe.command.props[2] = Prop("filter", Obj(<<Prop("a", Num(1))>>))
    /\ CommandObj(probe.command) = probe.command
    /\ CommandObj(SameKeysOtherValues(probe.command)) # probe.command
    /\ ObjectKeys(CommandObj(SameKeysOtherValues(probe.command))) = <<"find", "filter">>

\* the statement is the redacted form of the selected query body
IsRedactedStatement ==
    /\ Statement.t = "json"
    /\ IsFlatObject(Statement.text)
    /\ \A j \in 1..Len(FlatMembers(Statement.text)) :
          FlatMembers(Statement.text)[j][2] = StrTok(<<"?">>)

\* the selected query body has a value the redacted form would mask
BodyHasValues ==
    LET body == CommandObj(probe.command) IN
    /\ body.t = "object"
    /\ \E i \in 1..Len(body.props) : body.props[i].v # Str(<<"?">>)

\* C11: the statement attribute is the JSON text of the query body itself
\* when the option enhancedDatabaseReporting is true, and the redacted form
\* when the option is false or absent or there is no configuration.
C11_VerbatimIffEnhanced ==
    StatementSet =>
        /\ (OptGet(config, "enhancedDatabaseReporting") = Bool(TRUE))
              => Statement = JSONStringify(CommandObj(probe.command))
        /\ (config = Undefined \/ ~HasKey(config, "enhancedDatabaseReporting")
              \/ Get(config, "enhancedDatabaseReporting") = Bool(FALSE))
              => IsRedactedStatement
        /\ BodyHasValues =>
              ((Statement = JSONStringify(CommandObj(probe.command)))
                  <=> (OptGet(config, "enhancedDatabaseReporting") = Bool(TRUE)))

C11_Witness ==
    /\ StatementSet /\ BodyHasValues
    /\ config = Undefined
    /\ IsRedactedStatement
    /\ Statement # JSONStringify(CommandObj(probe.command))
    /\ Len(CommandObj(probe.command).props) = 2

RECURSIVE BeforeFirst(_, _)
\* the characters of cs before its first sep
BeforeFirst(cs, sep) ==
    IF cs = <<>> \/ Head(cs) = sep THEN <<>>
    ELSE <<Head(cs)>> \o BeforeFirst(Tail(cs), sep)

\* the characters of cs after its first sep
AfterFirst(cs, sep) == SubSeq(cs, Len(BeforeFirst(cs, sep)) + 2, Len(cs))

\* the probe ran _populateAttributes up to the database attributes
DatabaseSet ==
    /\ probe.made /\ probe.populated # NotRun
    /\ probe.ns.t = "string"

\* C12: the database name is the text of the namespace before its first
\* "." and the collection name all the text after it; with no "." the
\* collection name is undefined, and the extraction does not throw.
C12_SplitOnFirstSeparator ==
    DatabaseSet =>
        LET attrs == probe.populated.span.attributes
            cs    == probe.ns.chars
        IN
        /\ "DB_NAME" \in DOMAIN attrs
        /\ attrs["DB_NAME"] = Str(BeforeFirst(cs, "."))
        /\ attrs["DB_MONGODB_COLLECTION"] =
              IF \E i \in 1..Len(cs) : cs[i] = "."
              THEN Str(AfterFirst(cs, "."))
              ELSE Undefined
        /\ probe.command # Null => ~probe.populated.threw

-----------------------------------------------------------------------------
(* Properties of the span lifecycle *)

\* the handler the driver holds is the patchedEnd of span i
EndsSpan(h, i) == h.fn.t = "patchedEnd" /\ h.fn.span = i

\* C13: a span is ended only by the driver invoking the rewritten handler:
\* after the wrapper's own steps it is open, and as long as the driver has
\* not invoked the handler it stays open with its status unset.
C13_OpenUntilCompletion ==
    \A i \in 1..Len(spans) :
        /\ spans[i].ends > 0 =>
              \E j \in 1..Len(held) : EndsSpan(held[j], i) /\ held[j].fires >= 1
        /\ (\A j \in 1..Len(held) : EndsSpan(held[j], i) => held[j].fires = 0) =>
              /\ spans[i].ends = 0
              /\ spans[i].status = [code |-> "UNSET"]

C13_Witness ==
    /\ call.made /\ call.span # 0
    /\ call.reached.invoked /\ call.outcome.ok
    /\ Len(held) = 1 /\ held[1].fires = 0
    /\ ~completion.made
    /\ "db.statement" \in DOMAIN spans[call.span].attributes
    /\ spans[call.span].ends = 0

\* C15: patchedEnd sets the status if and only if its first argument is an
\* Error; with no argument or any other first argument it leaves the status
\* alone; in every case it ends the span once and hands all its arguments
\* to the real handler.
C15_StatusIffError ==
    (completion.made /\ completion.fn.t = "patchedEnd") =>
        LET ev    == completion.events
            isErr == Arg(completion.args, 1).t = "error"
        IN
        /\ (\E k \in 1..Len(ev) : ev[k].e = "setStatus") <=> isErr
        /\ \A k \in 1..Len(ev) : ev[k].e = "setStatus" =>
              ev[k].status = [code |-> "ERROR",
                              message |-> Arg(completion.args, 1).message]
        /\ Cardinality({k \in 1..Len(ev) : ev[k].e = "end"}) = 1
        /\ Cardinality({k \in 1..Len(ev) : ev[k].e = "handler"}) = 1
        /\ ev[Len(ev)] = [e |-> "handler", fn |-> completion.fn.resultHandler,
                          this |-> completion.this, args |-> completion.args]
        /\ spans[completion.fn.span].ends >= 1
        /\ (~isErr /\ \A j \in 1..Len(held) :
                        EndsSpan(held[j], completion.fn.span) => held[j].fires = 1)
              => spans[completion.fn.span].status = [code |-> "UNSET"]

C15_Witness ==
    /\ completion.made /\ completion.fn.t = "patchedEnd"
    /\ completion.args = <<Str(<<"e">>)>>
    /\ spans[completion.fn.span].ends = 1
    /\ spans[completion.fn.span].status = [code |-> "UNSET"]

\* C19: the span of a dispatch call is a CLIENT span named mongodb.<label>,
\* the label being the kind of the first command (the command, or element 0
\* of an array) or, for an UNKNOWN kind, the name of the method; the span of
\* a cursor call is named mongodb.query.
C19_SpanName ==
    (WrappedCall /\ call.span # 0) =>
        LET commands == Arg(call.args, 2)
            first    == IF commands.t = "array" THEN Arg(commands.items, 1) ELSE commands
            kind     == FirstMatch(first)
        IN
        /\ spans[call.span].kind = "CLIENT"
        /\ spans[call.span].name =
              IF call.kind = "cursor" THEN <<"mongodb", "query">>
              ELSE <<"mongodb", IF kind = "UNKNOWN" THEN call.method ELSE kind>>

C19_Witness ==
    /\ WrappedCall /\ call.span # 0
    /\ call.kind = "server" /\ call.method = "update"
    /\ Arg(call.args, 2) = Arr(<<CmdCount, CmdFind>>)
    /\ spans[call.span].name = <<"mongodb", "COUNT">>

-----------------------------------------------------------------------------
(* Properties of unpatch and of absent prototypes *)

BothPresent == moduleExports.Server /\ moduleExports.Cursor

\* C16: on a module with both prototypes, patch() followed by unpatch()
\* leaves each of the six target methods its original implementation, and
\* a call of a bare method starts no span, active span or not.
C16_UnpatchRestores ==
    /\ (BothPresent /\ Len(lifecycle) >= 2
            /\ SubSeq(Ops, 1, 2) = <<"patch", "unpatch">>) =>
                /\ lifecycle[2].outcome = Return(Undefined)
                /\ \A m \in Methods : proto[m] = 0
    /\ (call.made /\ ~call.wrapped) =>
                /\ call.span = 0
                /\ call.reached = Invoked(call.this, call.args)

C16_Witness ==
    /\ BothPresent
    /\ Ops = <<"patch", "unpatch">>
    /\ call.made /\ call.installed /\ ~call.wrapped
    /\ CallPrecondition
    /\ call.span = 0

\* C17: patch() on a module that lacks Server or Cursor raises no error,
\* wraps the methods of the present prototype only and sets the flag, so
\* that every later patch() changes nothing.
C17_PatchSkipsAbsent ==
    (~BothPresent /\ Len(lifecycle) >= 1 /\ lifecycle[1].op = "patch") =>
        /\ hasPatched = TRUE
        /\ \A i \in 1..Len(lifecycle) :
              lifecycle[i].op = "patch" => lifecycle[i].outcome = Return("moduleExports")
        /\ \A m \in Methods : ~Present(m) => proto[m] = 0
        /\ \A m \in Methods : proto[m] <= 1
        /\ (\A i \in 1..Len(lifecycle) : lifecycle[i].op = "patch") =>
              \A m \in Methods : Present(m) => proto[m] = 1

C17_Witness ==
    /\ ~moduleExports.Server /\ ~moduleExports.Cursor
    /\ Len(lifecycle) >= 2
    /\ \A i \in 1..Len(lifecycle) : lifecycle[i].op = "patch"
    /\ hasPatched = TRUE
    /\ \A m \in Methods : proto[m] = 0

\* C18: unpatch() throws if and only if Server or Cursor is absent from
\* the module; with Server absent the Cursor methods stay wrapped.
C18_UnpatchThrowsOnAbsent ==
    /\ \A i \in 1..Len(lifecycle) :
          lifecycle[i].op = "unpatch" =>
              (lifecycle[i].outcome = Throw("TypeError") <=> ~BothPresent)
    /\ (~moduleExports.Server /\ moduleExports.Cursor /\ hasPatched = TRUE) =>
          \A m \in Range(CURSOR_METHODS) : proto[m] = 1

C18_Witness ==
    /\ ~moduleExports.Server /\ moduleExports.Cursor
    /\ Ops = <<"patch", "unpatch">>
    /\ lifecycle[2].outcome = Throw("TypeError")
    /\ \A m \in Range(CURSOR_METHODS) : proto[m] = 1

-----------------------------------------------------------------------------
(* Several calls in flight *)

\* The application makes up to MaxCalls calls that the driver accepts, the
\* n-th with a completion handler of its own, Fn(n); the driver invokes the
\* handlers it holds in any order.

\* the methods called here: one of each surface (every method is called,
\* one call at a time, under Spec)
MultiServerMethods == {"insert"}
MultiCursorMethods == {"next"}

InitMulti ==
    /\ moduleExports = [Server |-> TRUE, Cursor |-> TRUE]
    /\ proto = [m \in Methods |-> 0]
    /\ hasPatched = FALSE
    /\ lifecycle = <<>>
    /\ config = Undefined
    /\ call = NoCall
    /\ spans = <<>>
    /\ held = <<>>
    /\ completion = NoCompletion
    /\ probe = NoProbe

\* the application calls a dispatch method while other calls are in flight
ServerCallMulti ==
    /\ Len(held) < MaxCalls
    /\ \E method \in MultiServerMethods, active \in BOOLEAN,
          args \in {<<NsDbColl, CmdFind, Fn(Len(held) + 1)>>,
                    <<NsDbColl, CmdFind, Options, Fn(Len(held) + 1)>>} :
        Called("server", method, TopologyOptions, args, active, Return(Str(<<"r">>)),
               IF proto[method] > 0
               THEN patchedServerCommand(method, TopologyOptions, args, active, config,
                                         Return(Str(<<"r">>)), Len(spans) + 1)
               ELSE Unwrapped(TopologyOptions, args, Return(Str(<<"r">>))))

\* the application calls a cursor method while other calls are in flight
CursorCallMulti ==
    /\ Len(held) < MaxCalls
    /\ \E method \in MultiCursorMethods, active \in BOOLEAN,
          this \in {r \in CursorReceivers : Get(r, "ns") = NsDbColl /\ Get(r, "cmd") = CmdFind} :
        LET args == <<Fn(Len(held) + 1)>> IN
        Called("cursor", method, this, args, active, Return(Str(<<"r">>)),
               IF proto[method] > 0
               THEN patchedCursorCommand(this, args, active, config,
                                         Return(Str(<<"r">>)), Len(spans) + 1)
               ELSE Unwrapped(this, args, Return(Str(<<"r">>))))

NextMulti == Patch \/ ServerCallMulti \/ CursorCallMulti \/ DriverInvoke

SpecMulti == InitMulti /\ [][NextMulti]_vars

\* the number of spans started by the first k accepted calls: the position
\* of the span of the k-th call when that call started one
SpanOf(k) == Cardinality({j \in 1..k : held[j].fn.t = "patchedEnd"})

\* the accepted call whose handler the driver invoked last
CompletedCall == CHOOSE k \in 1..Len(held) : held[k].fn = completion.fn

\* C14: each call in flight owns its span: the handler the driver holds for
\* the k-th call ends, and sets the status of, the span that call started
\* and invokes the handler of that call; a span is ended as often as the
\* handler of its own call was invoked, whatever the order of completions.
C14_EachCallOwnsItsSpan ==
    /\ Len(spans) = SpanOf(Len(held))
    /\ \A k \in 1..Len(held) :
          IF held[k].fn.t = "patchedEnd"
          THEN /\ held[k].fn.resultHandler = Fn(k)
               /\ held[k].fn.span = SpanOf(k)
               /\ spans[SpanOf(k)].ends = held[k].fires
               /\ held[k].fires = 0 => spans[SpanOf(k)].status = [code |-> "UNSET"]
          ELSE held[k].fn = Fn(k)
    /\ completion.made =>
          \A i \in 1..Len(completion.events) :
              LET ev == completion.events[i] IN
              IF ev.e = "handler" THEN ev.fn = Fn(CompletedCall)
              ELSE ev.span = SpanOf(CompletedCall)

C14_Witness ==
    /\ Len(held) = 2
    /\ held[1].fn.t = "patchedEnd" /\ held[2].fn.t = "patchedEnd"
    /\ held[1].fires = 0 /\ held[2].fires = 1
    /\ completion.made /\ completion.args = <<Err("boom")>>
    /\ spans[1].ends = 0 /\ spans[1].status = [code |-> "UNSET"]
    /\ spans[2].ends = 1 /\ spans[2].status.code = "ERROR"

====
